---- MODULE Spec2Model ----
(***************************************************************************)
(* Ads safety rails and audit trail of the CMO agent tools:                *)
(*   tools/google_ads.py    GoogleAdsAPI   (write operations)              *)
(*   tools/linkedin_ads.py  LinkedInAdsAPI (write operations)              *)
(*   tools/audit.py         AuditLogger                                    *)
(*   tools/google_ads.py, tools/linkedin_ads.py  AdsConfig                 *)
(*   tools/audit.py         main (the audit viewer)                        *)
(*   tools/errors.py        format_error                                   *)
(*   tools/base.py          BaseAPIClient._request                         *)
(* One API object is constructed (self); its write operations are called   *)
(* in any order with any arguments against a platform whose answers are    *)
(* not under the program's control.  The caller addresses either the       *)
(* campaign it created last or an id the platform does not know.           *)
(* The viewer, format_error, one _request call and two concurrent          *)
(* update_campaign_budget calls each have a specification of their own.    *)
(***************************************************************************)
EXTENDS Integers, Sequences, FiniteSets, TLC

\* ------------------------------------------------------------------ bounds
MaxBudget == 2
\* lines the audit file takes from calls without contents
MaxLog == 2
\* lines the audit file takes from calls with details or request data
MaxEvents == 1
\* largest --tail the audit viewer is run with
MaxTail == 2

\* --------------------------------------------------------------- constants
\* Python None where a number is expected (Optional[float])
NoBudget == -1
\* budget.amount_micros = int(budget_amount * 1_000_000)
Micros == 1000000

Budgets == 0..MaxBudget
OptBudgets == Budgets \cup {NoBudget}
\* total_budget arguments tried: the default and one positive amount
CreateTotals == {0, MaxBudget}
UpdateTotals == {NoBudget, MaxBudget}

\* campaign_id arguments: the id returned by the last successful create, and
\* an id the platform does not know
CampaignIds == {"created", "unknown"}

\* status strings a caller passes (mixed letter case, and names that are a
\* status on one platform only)
StatusInputs == {"ENABLED", "enabled", "ACTIVE", "Active", "PAUSED"}

\* str.upper() on the status strings
Upper(s) ==
    CASE s = "enabled" -> "ENABLED"
      [] s = "Active"  -> "ACTIVE"
      [] OTHER         -> s

\* member names of client.enums.CampaignStatusEnum
GoogleStatusEnum == {"UNSPECIFIED", "UNKNOWN", "ENABLED", "PAUSED", "REMOVED"}

\* what the platform answers to one request
GatewayOutcomes == {"ok", "error"}

VARIABLES
    self,        \* which API class was constructed
    config,      \* AdsConfig accessors' values, fixed at construction, and the
                 \* max_total_budget of the budgets section, which has no accessor
    client,      \* GoogleAdsAPI.client is set / LinkedInAdsAPI.access_token is set
    campaign,    \* the platform's record of the campaign created last
    call,        \* the last write operation called, with its arguments
    requests,    \* the requests that call sent to the platform, in order
    resp,        \* the dict that call returned (or the exception it raised)
    enabled,     \* AuditLogger.enabled of the instance constructed last
    log_api_calls, \* "log_api_calls" of that instance's logging section
    log_level,   \* level of the process-wide logger "cmo_agent.audit"
    log_dir,     \* AuditLogger.log_dir of the instance constructed last
    handler,     \* the file handler of the process-wide logger
    files,       \* lines of <dir>/ads_audit.log for each directory, oldest first
    log_args,    \* the last AuditLogger method called, with log()'s arguments
    log_out,     \* how that call ended: "returned" or "raised"
    config_file, \* what is found at AdsConfig's config_path
    loaded,      \* AdsConfig.config as _load_config returned it
    answers,     \* what each AdsConfig accessor returned when last called
    audit_log,   \* lines of tools/../logs/ads_audit.log as the viewer finds them
    view_args,   \* the command line of the audit viewer, once it has run
    entries,     \* the entries the audit viewer displayed
    error_args,  \* the arguments of the last format_error call
    error_result, \* the dict that call returned
    attempt,     \* BaseAPIClient._request: the loop variable of the retry loop
    last_error,  \* BaseAPIClient._request: last_error
    responses,   \* what each attempt of that request met, in order
    request_out, \* how _request ended, once it has
    callers,     \* concurrent update_campaign_budget calls: where each one is
    last_write   \* the budget write the platform carried out last

vars == <<self, config, client, campaign, call, requests, resp,
          enabled, log_api_calls, log_level, log_dir, handler, files,
          log_args, log_out,
          config_file, loaded, answers,
          audit_log, view_args, entries,
          error_args, error_result,
          attempt, last_error, responses, request_out,
          callers, last_write>>
adsVars == <<self, config, client, campaign, call, requests, resp>>
auditVars ==
    <<enabled, log_api_calls, log_level, log_dir, handler, files, log_args, log_out>>
configVars == <<config_file, loaded, answers>>
viewVars == <<audit_log, view_args, entries>>
\* the variables of the tools next to the ads classes and the audit logger
errorVars == <<error_args, error_result>>
requestVars == <<attempt, last_error, responses, request_out>>
raceVars == <<callers, last_write>>
toolVars == <<viewVars, errorVars, requestVars, raceVars>>

\* self.log_file = self.log_dir / "ads_audit.log"
logFile == files[log_dir]

\* ------------------------------------------------------- requests, responses
Req(kind, status, daily, total, outcome) ==
    [kind |-> kind, status |-> status, daily |-> daily, total |-> total,
     outcome |-> outcome]

Response(kind, keys, error, status, budget, max_budget) ==
    [kind |-> kind, keys |-> keys, error |-> error, status |-> status,
     budget |-> budget, max_budget |-> max_budget]

NoResponse == Response("none", {}, "", "", NoBudget, NoBudget)

Call(op, budget, status, confirm, id, current) ==
    [op |-> op, budget |-> budget, status |-> status,
     confirm |-> confirm, id |-> id, current |-> current]

NoCall == Call("none", NoBudget, "", FALSE, "", NoBudget)

Campaign(status, daily) == [exists |-> TRUE, status |-> status, daily |-> daily]
NoCampaign == [exists |-> FALSE, status |-> "", daily |-> NoBudget]
\* the platform knows the campaign the id names
Exists(id) == id = "created" /\ campaign.exists

\* {"error": f"Budget ${b} exceeds maximum allowed ${m}", "max_budget": m}
BudgetError(b, m) ==
    Response("error", {"error", "max_budget"}, "exceeds_maximum", "", b, m)

\* GoogleAdsAPI._no_client_error -> format_missing_credential_error
NoClientError ==
    Response("error",
             {"error", "service", "code", "message", "category", "recovery"},
             "missing_credential", "", NoBudget, NoBudget)

\* GoogleAdsAPI._handle_error(GoogleAdsException)
GoogleApiError ==
    Response("error", {"error", "request_id", "errors"}, "api_error", "",
             NoBudget, NoBudget)

\* LinkedInAdsAPI._make_request without an access token
NoTokenError ==
    Response("error", {"error"}, "no_access_token", "", NoBudget, NoBudget)

\* LinkedInAdsAPI._make_request on status >= 400 or a transport error
LinkedInApiError ==
    Response("error", {"error", "details"}, "api_error", "", NoBudget, NoBudget)

\* the result of one handler: what it returns, what it sent, the platform after
Result(r, reqs, store, current) ==
    [resp |-> r, requests |-> reqs, campaign |-> store, current |-> current]

\* the platform can serve a request on a campaign only when it knows it
CampaignOutcomes(id) == IF Exists(id) THEN GatewayOutcomes ELSE {"error"}

\* ----------------------------------------------------------- GoogleAdsAPI
\* create_campaign: "status" as decided by the force-draft check
GoogleCreateStatus(force_draft_mode) ==
    IF force_draft_mode THEN "PAUSED" ELSE "PAUSED"

\* create_campaign: campaign.status = CampaignStatusEnum.PAUSED
GoogleSentCreateStatus == "PAUSED"

\* variant: the comparison is off by one
ExceedsMax_OffByOne(b, max_budget) == max_budget > 0 /\ b > max_budget + 1

\* variant: the budget is not compared with the maximum at all
ExceedsMax_Never(b, max_budget) == FALSE

\* a maximum of 0 read as a cap of nothing
ExceedsMax_ZeroIsCap(b, max_budget) == b > max_budget

\* budget validation shared by the handlers: max_budget > 0 and b > max_budget
ExceedsMax(b, max_budget) == max_budget > 0 /\ b > max_budget

\* variant: the confirm flag is not consulted
CreateNeedsConfirmation_IgnoresConfirm(b, require_confirmation, confirm) ==
    b > 0 /\ require_confirmation

\* create_campaign: budget_amount > 0 and require_confirmation() and not confirm
CreateNeedsConfirmation(b, require_confirmation, confirm) ==
    b > 0 /\ require_confirmation /\ ~confirm

GoogleCreateCampaign(budget_amount, confirm, g1, g2) ==
    LET status == GoogleCreateStatus(config.force_draft_mode)
        max_budget == config.max_daily_budget
        budgetReq == Req("create_budget", "", budget_amount, NoBudget, g1)
        campaignReq == Req("create_campaign", GoogleSentCreateStatus,
                           budget_amount, NoBudget, g2)
    IN  IF ~client THEN Result(NoClientError, <<>>, campaign, NoBudget)
        ELSE IF ExceedsMax(budget_amount, max_budget)
        THEN Result(BudgetError(budget_amount, max_budget), <<>>, campaign, NoBudget)
        ELSE IF CreateNeedsConfirmation(budget_amount, config.require_confirmation, confirm)
        THEN Result(Response("requires_confirmation",
                             {"requires_confirmation", "message", "details"},
                             "", status, budget_amount, NoBudget),
                    <<>>, campaign, NoBudget)
        ELSE IF g1 # "ok"
        THEN Result(GoogleApiError, <<budgetReq>>, campaign, NoBudget)
        ELSE IF g2 # "ok"
        THEN Result(GoogleApiError, <<budgetReq, campaignReq>>, campaign, NoBudget)
        ELSE Result(Response("success",
                             {"success", "campaign_id", "resource_name", "name",
                              "status", "budget_daily", "message"},
                             "", "PAUSED", budget_amount, NoBudget),
                    <<budgetReq, campaignReq>>,
                    Campaign(GoogleSentCreateStatus, budget_amount),
                    NoBudget)

\* variant: the status is compared without upper()
GoogleEnables_CaseSensitive(status) == status = "ENABLED"

\* update_campaign_status: status.upper() == "ENABLED"
GoogleEnables(status) == Upper(status) = "ENABLED"

\* update_campaign_status: require_confirmation() and not confirm
\* a confirmation given for the create is remembered for the campaign
NeedsConfirmation_Remembered(require_confirmation, confirm) ==
    require_confirmation /\ ~confirm /\ ~campaign.exists

NeedsConfirmation(require_confirmation, confirm) ==
    require_confirmation /\ ~confirm

\* getattr(status_enum, status.upper(), status_enum.PAUSED)
GoogleStatusSent(status) ==
    IF Upper(status) \in GoogleStatusEnum THEN Upper(status) ELSE "PAUSED"

GoogleUpdateCampaignStatus(id, status, confirm, g) ==
    LET sent == GoogleStatusSent(status)
        req == Req("update_status", sent, NoBudget, NoBudget, g)
    IN  IF ~client THEN Result(NoClientError, <<>>, campaign, NoBudget)
        ELSE IF GoogleEnables(status)
                /\ NeedsConfirmation(config.require_confirmation, confirm)
        THEN Result(Response("requires_confirmation",
                             {"requires_confirmation", "message", "warning"},
                             "", "", NoBudget, NoBudget),
                    <<>>, campaign, NoBudget)
        ELSE IF g # "ok" THEN Result(GoogleApiError, <<req>>, campaign, NoBudget)
        ELSE Result(Response("success",
                             {"success", "campaign_id", "new_status", "message"},
                             "", Upper(status), NoBudget, NoBudget),
                    <<req>>,
                    [campaign EXCEPT !.status = sent],
                    NoBudget)

\* current.get("campaign_budget", {}).get("amount_micros", 0) / 1_000_000
GoogleCurrentBudget(c) == (c.daily * Micros) \div Micros

\* update_campaign_budget: new_budget > current_budget and
\* require_confirmation() and not confirm
IncreaseNeedsConfirmation(new_budget, current_budget, require_confirmation, confirm) ==
    new_budget > current_budget /\ require_confirmation /\ ~confirm

\* g is the platform's answer to the read of the campaign (run_query):
\* an error makes run_query return the error dict, and get_campaign's
\* results[0] on that dict raises KeyError; no rows gives None
GoogleUpdateCampaignBudget(id, new_budget, confirm, g) ==
    LET readReq == Req("read", "", NoBudget, NoBudget,
                       IF g = "ok" /\ ~Exists(id) THEN "empty" ELSE g)
        max_budget == config.max_daily_budget
    IN  IF ~client THEN Result(NoClientError, <<>>, campaign, NoBudget)
        ELSE IF g # "ok"
        THEN Result(Response("raise", {}, "KeyError", "", NoBudget, NoBudget),
                    <<readReq>>, campaign, NoBudget)
        ELSE IF ~Exists(id)
        THEN Result(Response("error", {"error"}, "not_found", "", NoBudget, NoBudget),
                    <<readReq>>, campaign, NoBudget)
        ELSE LET current_budget == GoogleCurrentBudget(campaign)
             IN  IF ExceedsMax(new_budget, max_budget)
                 THEN Result(BudgetError(new_budget, max_budget), <<readReq>>,
                             campaign, current_budget)
                 ELSE IF IncreaseNeedsConfirmation(new_budget, current_budget,
                                                   config.require_confirmation, confirm)
                 THEN Result(Response("requires_confirmation",
                                      {"requires_confirmation", "message",
                                       "current_budget", "new_budget"},
                                      "", "", new_budget, NoBudget),
                             <<readReq>>, campaign, current_budget)
                 ELSE Result(Response("error",
                                      {"error", "current_budget", "requested_budget"},
                                      "use_google_ads_ui", "", new_budget, NoBudget),
                             <<readReq>>, campaign, current_budget)

\* --------------------------------------------------------- LinkedInAdsAPI
\* variant: the campaign is created live
LinkedInCreateStatus_Active == "ACTIVE"

\* create_campaign: status = "DRAFT"  # Always DRAFT
LinkedInCreateStatus == "DRAFT"

\* a truthy Optional[float]: neither None nor 0
Truthy(b) == b # NoBudget /\ b # 0

\* campaign_data / update_data budget entries: present only when the code adds them
LinkedInCreateDaily(daily_budget) == IF daily_budget > 0 THEN daily_budget ELSE NoBudget
LinkedInCreateTotal(total_budget) == IF total_budget > 0 THEN total_budget ELSE NoBudget

\* _make_request: no network request without an access token; otherwise the
\* platform's answer decides between the JSON and an error dict
LinkedInCreateCampaign(daily_budget, total_budget, confirm, g) ==
    LET status == LinkedInCreateStatus
        max_budget == config.max_daily_budget
        req == Req("create_campaign", status, LinkedInCreateDaily(daily_budget),
                   LinkedInCreateTotal(total_budget), g)
    IN  IF ExceedsMax(daily_budget, max_budget)
        THEN Result(BudgetError(daily_budget, max_budget), <<>>, campaign, NoBudget)
        ELSE IF CreateNeedsConfirmation(daily_budget, config.require_confirmation, confirm)
        THEN Result(Response("requires_confirmation",
                             {"requires_confirmation", "message", "details"},
                             "", status, daily_budget, NoBudget),
                    <<>>, campaign, NoBudget)
        ELSE IF ~client THEN Result(NoTokenError, <<>>, campaign, NoBudget)
        ELSE IF g # "ok" THEN Result(LinkedInApiError, <<req>>, campaign, NoBudget)
        ELSE Result(Response("success",
                             {"success", "campaign_id", "name", "status",
                              "daily_budget", "message"},
                             "", "DRAFT", daily_budget, NoBudget),
                    <<req>>,
                    Campaign(status, LinkedInCreateDaily(daily_budget)),
                    NoBudget)

\* update_campaign_status: status.upper() == "ACTIVE"
LinkedInActivates(status) == Upper(status) = "ACTIVE"

\* update_campaign_status: "status": status.upper() in the patch
LinkedInStatusSent(status) == Upper(status)

LinkedInUpdateCampaignStatus(id, status, confirm, g) ==
    LET sent == LinkedInStatusSent(status)
        req == Req("update_status", sent, NoBudget, NoBudget, g)
    IN  IF LinkedInActivates(status)
           /\ NeedsConfirmation(config.require_confirmation, confirm)
        THEN Result(Response("requires_confirmation",
                             {"requires_confirmation", "message", "warning"},
                             "", "", NoBudget, NoBudget),
                    <<>>, campaign, NoBudget)
        ELSE IF ~client THEN Result(NoTokenError, <<>>, campaign, NoBudget)
        ELSE IF g # "ok" THEN Result(LinkedInApiError, <<req>>, campaign, NoBudget)
        ELSE Result(Response("success",
                             {"success", "campaign_id", "new_status", "message"},
                             "", Upper(status), NoBudget, NoBudget),
                    <<req>>,
                    [campaign EXCEPT !.status = sent],
                    NoBudget)

\* current_daily = 0, or float(current["dailyBudget"]["amount"]) when present
LinkedInCurrentDaily(c) ==
    IF c.daily # NoBudget THEN c.daily ELSE 0

\* variant: the comparison is off by one
LinkedInUpdateExceedsMax_OffByOne(daily_budget, max_budget) ==
    Truthy(daily_budget) /\ max_budget > 0 /\ daily_budget > max_budget + 1

\* update_campaign_budget: daily_budget and max_budget > 0 and daily_budget > max_budget
LinkedInUpdateExceedsMax(daily_budget, max_budget) ==
    Truthy(daily_budget) /\ max_budget > 0 /\ daily_budget > max_budget

\* variant: an increase is never held back
LinkedInIncreaseNeedsConfirmation_Never(daily_budget, current_daily, require_confirmation, confirm) ==
    FALSE

\* variant: the confirm flag is read the wrong way round
LinkedInIncreaseNeedsConfirmation_Inverted(daily_budget, current_daily, require_confirmation, confirm) ==
    /\ Truthy(daily_budget) /\ daily_budget > current_daily
    /\ require_confirmation /\ confirm

\* variant: every change of the budget is gated, not only an increase
LinkedInIncreaseNeedsConfirmation_AnyChange(daily_budget, current_daily, require_confirmation, confirm) ==
    /\ Truthy(daily_budget) /\ daily_budget # current_daily
    /\ require_confirmation /\ ~confirm

\* update_campaign_budget: daily_budget and daily_budget > current_daily, then
\* require_confirmation() and not confirm
LinkedInIncreaseNeedsConfirmation(daily_budget, current_daily, require_confirmation, confirm) ==
    /\ Truthy(daily_budget) /\ daily_budget > current_daily
    /\ require_confirmation /\ ~confirm

\* g1 answers the read of the campaign, g2 the PATCH
LinkedInUpdateCampaignBudget(id, daily_budget, total_budget, confirm, g1, g2) ==
    LET readReq == Req("read", "", NoBudget, NoBudget, g1)
        max_budget == config.max_daily_budget
        patchReq == Req("update_budget", "", daily_budget, total_budget, g2)
    IN  IF ~client THEN Result(NoTokenError, <<>>, campaign, NoBudget)
        ELSE IF g1 # "ok" THEN Result(LinkedInApiError, <<readReq>>, campaign, NoBudget)
        ELSE LET current_daily == LinkedInCurrentDaily(campaign)
             IN  IF LinkedInUpdateExceedsMax(daily_budget, max_budget)
                 THEN Result(BudgetError(daily_budget, max_budget), <<readReq>>,
                             campaign, current_daily)
                 ELSE IF LinkedInIncreaseNeedsConfirmation(daily_budget, current_daily,
                                                           config.require_confirmation, confirm)
                 THEN Result(Response("requires_confirmation",
                                      {"requires_confirmation", "message",
                                       "current_budget", "new_budget"},
                                      "", "", daily_budget, NoBudget),
                             <<readReq>>, campaign, current_daily)
                 ELSE IF g2 # "ok"
                 THEN Result(LinkedInApiError, <<readReq, patchReq>>, campaign,
                             current_daily)
                 ELSE Result(Response("success",
                                      {"success", "campaign_id", "new_daily_budget",
                                       "new_total_budget", "message"},
                                      "", "", daily_budget, NoBudget),
                             <<readReq, patchReq>>,
                             IF daily_budget # NoBudget
                             THEN [campaign EXCEPT !.daily = daily_budget]
                             ELSE campaign,
                             current_daily)

\* create_campaign_group: "Monthly equivalent" of the daily maximum
MonthlyDays == 30

\* total_budget arguments tried: the default, an amount within a month of
\* any positive daily maximum, and an amount above a month of each of them
GroupTotals == {0, MaxBudget, MonthlyDays * MaxBudget}

\* create_campaign_group: no confirmation gate, confirm is not read
LinkedInCreateCampaignGroup(total_budget, confirm, g) ==
    LET max_budget == config.max_daily_budget * MonthlyDays
        req == Req("create_group", "DRAFT", NoBudget,
                   LinkedInCreateTotal(total_budget), g)
    IN  IF ExceedsMax(total_budget, max_budget)
        THEN Result(BudgetError(total_budget, max_budget), <<>>, campaign, NoBudget)
        ELSE IF ~client THEN Result(NoTokenError, <<>>, campaign, NoBudget)
        ELSE IF g # "ok" THEN Result(LinkedInApiError, <<req>>, campaign, NoBudget)
        ELSE Result(Response("success",
                             {"success", "group_id", "name", "status", "message"},
                             "", "DRAFT", total_budget, NoBudget),
                    <<req>>, campaign, NoBudget)

\* ------------------------------------------------------------ ads actions
\* a cap of MaxBudget would never be exceeded by a budget of the model
Caps == 0..(MaxBudget - 1)

\* max_total_budget as configured: none, or one below the totals tried
TotalCaps == {0, MaxBudget - 1}

Configs ==
    [max_daily_budget : Caps, max_total_budget : TotalCaps,
     force_draft_mode : BOOLEAN, require_confirmation : BOOLEAN]

\* the handlers of both classes never touch the audit logger
Returns(c, r) ==
    /\ call' = [c EXCEPT !.current = r.current]
    /\ resp' = r.resp
    /\ requests' = r.requests
    /\ campaign' = r.campaign
    /\ UNCHANGED <<self, config, client>>
    /\ UNCHANGED auditVars
    /\ UNCHANGED configVars
    /\ UNCHANGED toolVars

\* The platform answers a request only when the handler sends it: the answer
\* to the n-th request is drawn once the handler, run with the answers so far,
\* is seen to send an n-th request.
GoogleAdsAPI_create_campaign ==
    /\ self = "GoogleAdsAPI"
    /\ \E b \in Budgets, confirm \in BOOLEAN :
       LET c == Call("create", b, "", confirm, "", NoBudget)
           r0 == GoogleCreateCampaign(b, confirm, "error", "error")
       IN  IF r0.requests = <<>> THEN Returns(c, r0)
           ELSE \E g1 \in GatewayOutcomes :
                LET r1 == GoogleCreateCampaign(b, confirm, g1, "error")
                IN  IF Len(r1.requests) < 2 THEN Returns(c, r1)
                    ELSE \E g2 \in GatewayOutcomes :
                         Returns(c, GoogleCreateCampaign(b, confirm, g1, g2))

GoogleAdsAPI_update_campaign_status ==
    /\ self = "GoogleAdsAPI"
    /\ \E id \in CampaignIds, status \in StatusInputs, confirm \in BOOLEAN :
       LET c == Call("update_status", NoBudget, status, confirm, id, NoBudget)
           r0 == GoogleUpdateCampaignStatus(id, status, confirm, "error")
       IN  IF r0.requests = <<>> THEN Returns(c, r0)
           ELSE \E g \in CampaignOutcomes(id) :
                Returns(c, GoogleUpdateCampaignStatus(id, status, confirm, g))

GoogleAdsAPI_update_campaign_budget ==
    /\ self = "GoogleAdsAPI"
    /\ \E id \in CampaignIds, b \in Budgets, confirm \in BOOLEAN :
       LET c == Call("update_budget", b, "", confirm, id, NoBudget)
           r0 == GoogleUpdateCampaignBudget(id, b, confirm, "error")
       IN  IF r0.requests = <<>> THEN Returns(c, r0)
           ELSE \E g \in GatewayOutcomes :
                Returns(c, GoogleUpdateCampaignBudget(id, b, confirm, g))

LinkedInAdsAPI_create_campaign ==
    /\ self = "LinkedInAdsAPI"
    /\ \E b \in Budgets, t \in CreateTotals, confirm \in BOOLEAN :
       LET c == Call("create", b, "", confirm, "", NoBudget)
           r0 == LinkedInCreateCampaign(b, t, confirm, "error")
       IN  IF r0.requests = <<>> THEN Returns(c, r0)
           ELSE \E g \in GatewayOutcomes :
                Returns(c, LinkedInCreateCampaign(b, t, confirm, g))

LinkedInAdsAPI_update_campaign_status ==
    /\ self = "LinkedInAdsAPI"
    /\ \E id \in CampaignIds, status \in StatusInputs, confirm \in BOOLEAN :
       LET c == Call("update_status", NoBudget, status, confirm, id, NoBudget)
           r0 == LinkedInUpdateCampaignStatus(id, status, confirm, "error")
       IN  IF r0.requests = <<>> THEN Returns(c, r0)
           ELSE \E g \in CampaignOutcomes(id) :
                Returns(c, LinkedInUpdateCampaignStatus(id, status, confirm, g))

LinkedInAdsAPI_update_campaign_budget ==
    /\ self = "LinkedInAdsAPI"
    /\ \E id \in CampaignIds, b \in OptBudgets, t \in UpdateTotals, confirm \in BOOLEAN :
       LET c == Call("update_budget", b, "", confirm, id, NoBudget)
           r0 == LinkedInUpdateCampaignBudget(id, b, t, confirm, "error", "error")
       IN  IF r0.requests = <<>> THEN Returns(c, r0)
           ELSE \E g1 \in CampaignOutcomes(id) :
                LET r1 == LinkedInUpdateCampaignBudget(id, b, t, confirm, g1, "error")
                IN  IF Len(r1.requests) < 2 THEN Returns(c, r1)
                    ELSE \E g2 \in GatewayOutcomes :
                         Returns(c, LinkedInUpdateCampaignBudget(id, b, t, confirm, g1, g2))

LinkedInAdsAPI_create_campaign_group ==
    /\ self = "LinkedInAdsAPI"
    /\ \E t \in GroupTotals, confirm \in BOOLEAN :
       LET c == Call("create_group", t, "", confirm, "", NoBudget)
           r0 == LinkedInCreateCampaignGroup(t, confirm, "error")
       IN  IF r0.requests = <<>> THEN Returns(c, r0)
           ELSE \E g \in GatewayOutcomes :
                Returns(c, LinkedInCreateCampaignGroup(t, confirm, g))

\* ------------------------------------------------------------ AuditLogger
\* JSON-like values, tagged by their Python type
Str(x) == [t |-> "str", v |-> x]
Map(f) == [t |-> "map", v |-> f]
List(q) == [t |-> "list", v |-> q]
Num(n) == [t |-> "num", v |-> n]
Bool(b) == [t |-> "bool", v |-> b]
\* an argument left at None
NoneValue == [t |-> "none", v |-> ""]
\* a Python object json.dumps has no encoding for (a datetime, a set, ...)
Unserializable == [t |-> "object", v |-> ""]

REDACTED == Str("[REDACTED]")

\* _sanitize_request: sensitive_fields
sensitive_fields ==
    {"api_key", "access_token", "refresh_token", "client_secret",
     "password", "secret", "token", "authorization"}

\* dict keys tried: two spellings of a denylisted key and a harmless key
Keys == {"token", "Token", "name"}

\* str.lower() on the keys
Lower(k) ==
    CASE k = "Token" -> "token"
      [] OTHER       -> k

\* _sanitize_request.redact
RECURSIVE redact(_)
redact(obj) ==
    IF obj.t = "map"
    THEN Map([k \in DOMAIN obj.v |->
                 IF Lower(k) \in sensitive_fields THEN REDACTED ELSE redact(obj.v[k])])
    ELSE IF obj.t = "list"
    THEN List([i \in DOMAIN obj.v |-> redact(obj.v[i])])
    ELSE obj

\* top-level denylisted keys dropped instead of marked
_sanitize_request_DropsKeys(request_data) ==
    IF request_data = NoneValue THEN NoneValue
    ELSE Map([k \in {j \in DOMAIN request_data.v : Lower(j) \notin sensitive_fields} |->
                 redact(request_data.v[k])])

\* _sanitize_request
_sanitize_request(request_data) ==
    IF request_data = NoneValue THEN NoneValue ELSE redact(request_data)

\* nested values up to two levels: a secret string, one-key dicts and
\* one-item lists around a value of the level below
Level0 == {Str("s3cr3t")}
Wrap(S) == S \cup {Map([k \in {key} |-> x]) : key \in Keys, x \in S}
             \cup {List(<<x>>) : x \in S}
Level1 == Wrap(Level0)
Level2 == Wrap(Level1)
\* dicts with a denylisted key next to a harmless one
Siblings ==
    {Map([k \in {"Token", "name"} |-> IF k = "name" THEN x ELSE Str("s3cr3t")]) :
        x \in Level1}
Dicts == {x \in Level2 : x.t = "map"} \cup Siblings

\* json.dumps(event.to_dict()) finds an encoding for every value
RECURSIVE Serializable(_)
Serializable(obj) ==
    IF obj.t = "map" THEN \A k \in DOMAIN obj.v : Serializable(obj.v[k])
    ELSE IF obj.t = "list" THEN \A i \in DOMAIN obj.v : Serializable(obj.v[i])
    ELSE obj.t # "object"

\* AuditSeverity values, and their logging levels
Severities == {"debug", "info", "warning", "error", "critical"}
LevelNo(sev) ==
    CASE sev = "debug"    -> 10
      [] sev = "info"     -> 20
      [] sev = "warning"  -> 30
      [] sev = "error"    -> 40
      [] sev = "critical" -> 50

\* log levels a logging section configures
LogLevels == {"debug", "info", "warning"}
\* log directories of the process
Dirs == {"D1", "D2"}
Platforms == {"google_ads", "linkedin_ads"}
\* the file behind the handler takes the write, or not (disk full, removed)
Sinks == {"ok", "unavailable"}

\* logging.FileHandler(self.log_file) with its level
Handler(dir, level) == [file |-> dir, level |-> level]

\* the method called and the arguments log() receives from it
LogArguments(op, event_type, platform, success, severity, details, request_data, sink) ==
    [op |-> op, event_type |-> event_type, platform |-> platform,
     success |-> success, severity |-> severity, details |-> details,
     request_data |-> request_data, sink |-> sink]

NoArguments ==
    LogArguments("none", "", "", FALSE, "", NoneValue, NoneValue, "ok")

\* AuditEvent as built by AuditLogger.log (to_dict drops the None fields)
AuditEvent(event_type, severity, platform, success, details, request_data) ==
    [event_type |-> event_type, severity |-> severity, platform |-> platform,
     success |-> success, details |-> details, request_data |-> request_data]

\* "if not self.enabled: return"
Disabled_Never == FALSE

Disabled == ~enabled

\* the logger passes a record of its level or above to its handlers, and the
\* handler writes a record of its own level or above
Emitted(severity) ==
    /\ LevelNo(severity) >= LevelNo(log_level)
    /\ LevelNo(severity) >= LevelNo(handler.level)

\* log_method(event.to_json()): the line goes to the file of the logger's
\* handler; a failing write is swallowed by logging (Handler.handleError)
LogLines(event, severity, sink) ==
    IF Emitted(severity) /\ sink = "ok"
    THEN [files EXCEPT ![handler.file] = Append(@, event)]
    ELSE files

\* AuditLogger.log: nothing when disabled; the event, with request_data
\* sanitized and details as given, is encoded (which raises on a value
\* without encoding) and handed to the logger method of its severity
Log(a) ==
    /\ log_args' = a
    /\ IF Disabled
       THEN log_out' = "returned" /\ files' = files
       ELSE LET event == AuditEvent(a.event_type, a.severity, a.platform,
                                    a.success, a.details,
                                    _sanitize_request(a.request_data))
            IN  IF Serializable(event.details) /\ Serializable(event.request_data)
                THEN log_out' = "returned"
                     /\ files' = LogLines(event, a.severity, a.sink)
                ELSE log_out' = "raised" /\ files' = files
    /\ UNCHANGED <<enabled, log_level, log_dir, handler, log_api_calls>>
    /\ UNCHANGED adsVars
    /\ UNCHANGED configVars
    /\ UNCHANGED toolVars

\* the call reaches the file: only then does the state of the sink matter
Reaches(a) ==
    /\ ~Disabled
    /\ Serializable(a.details)
    /\ Serializable(_sanitize_request(a.request_data))
    /\ Emitted(a.severity)

\* a plain call against a sink in either state
PlainCalled(a) ==
    \E sink \in Sinks :
        /\ sink = "unavailable" => Reaches(a)
        /\ Log([a EXCEPT !.sink = sink])

\* calls without contents stop when the handler's file holds MaxLog lines,
\* calls with contents when it holds MaxEvents lines
LogRoom == Len(files[handler.file]) < MaxLog
EventRoom == Len(files[handler.file]) < MaxEvents

\* the arguments tried for log(): each varies around one plain call
PlainArgs(platform, success, severity) ==
    LogArguments("log", "update_campaign", platform, success, severity,
                 NoneValue, NoneValue, "ok")

LogArgs ==
    {[PlainArgs("google_ads", TRUE, "info") EXCEPT !.details = d] :
        d \in Level2 \cup {Map([k \in {"name"} |-> Unserializable])}}
    \cup
    {[PlainArgs("google_ads", TRUE, "info") EXCEPT !.request_data = d] :
        d \in Dicts \cup {Map([k \in {"token"} |-> Unserializable])}}

PlainLogArgs ==
    {PlainArgs(p, s, sev) : p \in Platforms, s \in BOOLEAN, sev \in Severities}

AuditLogger_log ==
    /\ EventRoom
    /\ \/ \E a \in LogArgs : Log(a)
       \/ \E a \in PlainLogArgs : PlainCalled(a)

\* log() with its optional arguments left at their defaults, at each severity
AuditLogger_log_defaults ==
    /\ LogRoom
    /\ \E sev \in Severities : PlainCalled(PlainArgs("google_ads", TRUE, sev))

\* a convenience method that ends before it reaches log()
Ends(a, out) ==
    /\ log_args' = a
    /\ log_out' = out
    /\ UNCHANGED <<enabled, log_level, log_dir, handler, files, log_api_calls>>
    /\ UNCHANGED adsVars
    /\ UNCHANGED configVars
    /\ UNCHANGED toolVars

AuditLogger_log_campaign_created ==
    /\ EventRoom
    /\ \E platform \in Platforms, budget \in {0, MaxBudget} :
        Log(LogArguments("log_campaign_created", "create_campaign",
                            platform, TRUE, "info",
                            Map([campaign_name |-> Str("Test"),
                                 status |-> Str("PAUSED"),
                                 daily_budget |-> Num(budget)]),
                            NoneValue, "ok"))

\* "Higher severity for activation"
StatusChangeSeverity(new_status) ==
    IF new_status \in {"ENABLED", "ACTIVE"} THEN "warning" ELSE "info"

AuditLogger_log_status_change ==
    /\ EventRoom
    /\ \E new_status \in StatusInputs, confirmed \in BOOLEAN :
        Log(LogArguments("log_status_change", "update_status",
                            "google_ads", TRUE,
                            StatusChangeSeverity(new_status),
                            Map([old_status |-> Str("PAUSED"),
                                 new_status |-> Str(new_status),
                                 user_confirmed |-> Bool(confirmed)]),
                            NoneValue, "ok"))

change_type(old_budget, new_budget) ==
    IF new_budget > old_budget THEN "increase" ELSE "decrease"

\* every budget change logged at INFO
BudgetChangeSeverity_AlwaysInfo(old_budget, new_budget) == "info"

BudgetChangeSeverity(old_budget, new_budget) ==
    IF change_type(old_budget, new_budget) = "increase" THEN "warning" ELSE "info"

\* comparing with, and formatting, an old budget of None raises TypeError
AuditLogger_log_budget_change ==
    /\ EventRoom
    /\ \E old_budget \in {NoBudget, 0, MaxBudget}, new_budget \in {0, MaxBudget} :
        LET a == LogArguments("log_budget_change", "update_budget",
                              "google_ads", TRUE,
                              BudgetChangeSeverity(old_budget, new_budget),
                              Map([old_budget |-> Num(old_budget),
                                   new_budget |-> Num(new_budget),
                                   change_type |->
                                       Str(change_type(old_budget, new_budget)),
                                   user_confirmed |-> Bool(TRUE)]),
                              NoneValue, "ok")
        IN  IF old_budget = NoBudget
            THEN Ends([a EXCEPT !.severity = "", !.details = NoneValue], "raised")
            ELSE Log(a)

AuditLogger_log_budget_limit_exceeded ==
    /\ EventRoom
    /\ \E maximum \in Caps \ {0} :
        Log(LogArguments("log_budget_limit_exceeded", "budget_limit_exceeded",
                            "google_ads", FALSE, "warning",
                            Map([requested_budget |-> Num(MaxBudget),
                                 maximum_allowed |-> Num(maximum),
                                 config_file |-> Str("tools/ads_config.yaml")]),
                            NoneValue, "ok"))

AuditLogger_log_confirmation_required ==
    /\ EventRoom
    /\ Log(LogArguments("log_confirmation_required", "confirmation_required",
                           "google_ads", FALSE, "info",
                           Map([reason |-> Str("reason")]), NoneValue, "ok"))

AuditLogger_log_api_error ==
    /\ EventRoom
    /\ \E platform \in Platforms :
        Log(LogArguments("log_api_error", "api_error", platform, FALSE,
                            "error", Map([error_code |-> Str("code")]),
                            NoneValue, "ok"))

\* returns at once when the logging section sets log_api_calls to false
AuditLogger_log_query ==
    /\ EventRoom
    /\ LET a == LogArguments("log_query", "run_query", "google_ads", TRUE,
                             "debug",
                             Map([query_preview |-> Str("query"),
                                  result_count |-> Num(0)]),
                             NoneValue, "ok")
       IN  IF log_api_calls THEN Log(a)
           ELSE Ends([a EXCEPT !.details = NoneValue], "returned")

\* AuditLogger.__init__ of a further instance in the same process: the logger
\* "cmo_agent.audit" is process-wide, takes the new level, and keeps the
\* handler it has
AuditLogger_init ==
    /\ \E dir \in Dirs, audit_trail \in BOOLEAN, level \in LogLevels,
          api_calls \in BOOLEAN :
        /\ enabled' = audit_trail
        /\ log_api_calls' = api_calls
        /\ log_dir' = dir
        /\ log_level' = level
    /\ handler' = handler
    /\ files' = files
    /\ log_args' = NoArguments
    /\ log_out' = "none"
    /\ UNCHANGED adsVars
    /\ UNCHANGED configVars
    /\ UNCHANGED toolVars

\* --------------------------------------------------------------- AdsConfig
\* what Path(config_path).exists() and yaml.safe_load(f) make of the file
MissingFile == [t |-> "missing", v |-> ""]
\* a file yaml.safe_load rejects: it raises yaml.YAMLError
UnparsableFile == [t |-> "unparsable", v |-> ""]
\* an empty file (or one of comments only): yaml.safe_load returns None
EmptyFile == NoneValue

\* an exception leaves the call
Raise == [t |-> "raise", v |-> ""]
\* AdsConfig not constructed yet / accessor not called yet
Unloaded == [t |-> "unloaded", v |-> ""]
Uncalled == [t |-> "uncalled", v |-> ""]

EmptyMap == Map(<<>>)

\* the key of the platform's entries: "google_ads" in tools/google_ads.py,
\* "linkedin_ads" in tools/linkedin_ads.py
PlatformKey(api) == IF api = "GoogleAdsAPI" THEN "google_ads" ELSE "linkedin_ads"

\* "max_cpc_bid" of the default config, and the accessor's default
DefaultMaxCpcBid(api) == IF api = "GoogleAdsAPI" THEN 5 ELSE 10

\* dicts over any subset of the keys, with values from V
PartialMaps(keys, V) == {Map(f) : f \in UNION {[S -> V] : S \in SUBSET keys}}

\* the sections of ads_config.yaml: a mapping, or null ("safety:" alone)
SafetySections ==
    {NoneValue} \cup
    PartialMaps({"force_draft_mode", "require_confirmation"}, {Bool(TRUE), Bool(FALSE)})
PlatformEntries ==
    {NoneValue} \cup
    PartialMaps({"max_daily_budget", "max_cpc_bid"}, {Num(b) : b \in Budgets})
BudgetsSections(api) ==
    {NoneValue} \cup PartialMaps({PlatformKey(api)}, PlatformEntries)

\* a document with any subset of the two sections
Documents(api) ==
    {Map(f) : f \in
        UNION {{g \in [S -> SafetySections \cup BudgetsSections(api)] :
                   /\ "safety" \in S => g["safety"] \in SafetySections
                   /\ "budgets" \in S => g["budgets"] \in BudgetsSections(api)} :
               S \in SUBSET {"safety", "budgets"}}}

ConfigFiles(api) == Documents(api) \cup {MissingFile, UnparsableFile, EmptyFile}

\* "Default config if file not found"
DefaultConfig(api) ==
    Map([safety |-> Map([force_draft_mode |-> Bool(TRUE),
                         require_confirmation |-> Bool(TRUE)]),
         budgets |-> Map([k \in {PlatformKey(api)} |->
                          Map([max_daily_budget |-> Num(0),
                               max_total_budget |-> Num(0),
                               max_cpc_bid |-> Num(DefaultMaxCpcBid(api))])])])

\* AdsConfig._load_config: the parsed file as it is, the defaults when the
\* file does not exist
_load_config(api, file) ==
    IF file = MissingFile THEN DefaultConfig(api)
    ELSE IF file = UnparsableFile THEN Raise
    ELSE file

\* obj.get(key, default): AttributeError when obj is None
Get(obj, key, default) ==
    IF obj.t # "map" THEN Raise
    ELSE IF key \in DOMAIN obj.v THEN obj.v[key]
    ELSE default

get_max_daily_budget(api, cfg) ==
    Get(Get(Get(cfg, "budgets", EmptyMap), PlatformKey(api), EmptyMap),
        "max_daily_budget", Num(0))

get_max_cpc_bid(api, cfg) ==
    Get(Get(Get(cfg, "budgets", EmptyMap), PlatformKey(api), EmptyMap),
        "max_cpc_bid", Num(DefaultMaxCpcBid(api)))

force_draft_mode(cfg) ==
    Get(Get(cfg, "safety", EmptyMap), "force_draft_mode", Bool(TRUE))

require_confirmation(cfg) ==
    Get(Get(cfg, "safety", EmptyMap), "require_confirmation", Bool(TRUE))

PolicyFields ==
    {"max_daily_budget", "max_cpc_bid", "force_draft_mode", "require_confirmation"}

NoAnswers == [f \in PolicyFields |-> Uncalled]

\* AdsConfig.__init__
AdsConfig_init ==
    /\ loaded = Unloaded
    /\ loaded' = _load_config(self, config_file)
    /\ UNCHANGED <<config_file, answers>>
    /\ UNCHANGED adsVars
    /\ UNCHANGED auditVars
    /\ UNCHANGED toolVars

\* an accessor called on the constructed object
Answers(field, value) ==
    /\ loaded \notin {Unloaded, Raise}
    /\ answers' = [answers EXCEPT ![field] = value]
    /\ UNCHANGED <<config_file, loaded>>
    /\ UNCHANGED adsVars
    /\ UNCHANGED auditVars
    /\ UNCHANGED toolVars

AdsConfig_get_max_daily_budget ==
    Answers("max_daily_budget", get_max_daily_budget(self, loaded))

AdsConfig_get_max_cpc_bid ==
    Answers("max_cpc_bid", get_max_cpc_bid(self, loaded))

AdsConfig_force_draft_mode ==
    Answers("force_draft_mode", force_draft_mode(loaded))

AdsConfig_require_confirmation ==
    Answers("require_confirmation", require_confirmation(loaded))

\* ------------------------------------- concurrent update_campaign_budget
\* Two callers (threads or processes, each with its own LinkedInAdsAPI over
\* the same configuration) run update_campaign_budget on one campaign.  A
\* call is three steps: it is entered, it reads the campaign (get_campaign),
\* and it decides on what it read and sends the PATCH.  Nothing in the code
\* holds the campaign between the read and the PATCH.
Callers == {"A", "B"}

\* where a call is, its arguments, what it read and how it ended
Caller(pc, daily_budget, confirm, current_daily, out) ==
    [pc |-> pc, daily_budget |-> daily_budget, confirm |-> confirm,
     current_daily |-> current_daily, out |-> out]
Idle == Caller("idle", NoBudget, FALSE, NoBudget, "")

\* a PATCH the platform carried out: who sent it, the budget it set, what the
\* sender had read, and the campaign's budget just before
Write(by, budget, confirm, read, before) ==
    [by |-> by, budget |-> budget, confirm |-> confirm, read |-> read,
     before |-> before]
NoWrite == Write("", NoBudget, FALSE, NoBudget, NoBudget)

Steps(t, c, store, w) ==
    /\ callers' = [callers EXCEPT ![t] = c]
    /\ campaign' = store
    /\ last_write' = w
    /\ UNCHANGED <<self, config, client, call, requests, resp>>
    /\ UNCHANGED auditVars
    /\ UNCHANGED configVars
    /\ UNCHANGED viewVars
    /\ UNCHANGED errorVars
    /\ UNCHANGED requestVars

\* update_campaign_budget(campaign_id, daily_budget, confirm=...) is entered
Concurrent_update_campaign_budget ==
    \E t \in Callers, daily_budget \in Budgets, confirm \in BOOLEAN :
        /\ callers[t].pc = "idle"
        /\ Steps(t, Caller("get_campaign", daily_budget, confirm, NoBudget, ""),
                 campaign, last_write)

\* current = self.get_campaign(campaign_id); an error ends the call
Concurrent_get_campaign ==
    \E t \in Callers, g \in GatewayOutcomes :
        /\ callers[t].pc = "get_campaign"
        /\ Steps(t,
                 IF g = "ok"
                 THEN [callers[t] EXCEPT !.pc = "patch",
                                         !.current_daily = LinkedInCurrentDaily(campaign)]
                 ELSE [callers[t] EXCEPT !.pc = "done", !.out = "error"],
                 campaign, last_write)

\* the cap check and the confirmation gate on what was read, then the PATCH
Concurrent_patch ==
    \E t \in Callers, g \in GatewayOutcomes :
        LET c == callers[t]
            Done(out) == [c EXCEPT !.pc = "done", !.out = out]
        IN  /\ c.pc = "patch"
            /\ IF LinkedInUpdateExceedsMax(c.daily_budget, config.max_daily_budget)
               THEN Steps(t, Done("error"), campaign, last_write)
               ELSE IF LinkedInIncreaseNeedsConfirmation(c.daily_budget, c.current_daily,
                                                         config.require_confirmation,
                                                         c.confirm)
               THEN Steps(t, Done("requires_confirmation"), campaign, last_write)
               ELSE IF g # "ok"
               THEN Steps(t, Done("error"), campaign, last_write)
               ELSE Steps(t, Done("success"),
                          [campaign EXCEPT !.daily = c.daily_budget],
                          Write(t, c.daily_budget, c.confirm, c.current_daily,
                                LinkedInCurrentDaily(campaign)))

\* ------------------------------------------------------------ audit viewer
\* a line of the log file: an event as AuditLogger wrote it (one JSON object
\* with platform, severity and success), or text json.loads rejects
LogEntry(platform, severity, success) ==
    [json |-> TRUE, platform |-> platform, severity |-> severity,
     success |-> success]

NotJson == [json |-> FALSE, platform |-> "", severity |-> "", success |-> FALSE]

\* severities of the events found in the file
ViewSeverities == {"info", "error"}

LogFileLines ==
    {LogEntry(p, sev, ok) : p \in Platforms, sev \in ViewSeverities,
                            ok \in BOOLEAN} \cup {NotJson}

\* log_file.exists(), and the lines of the file, oldest first
LogFile(exists, lines) == [exists |-> exists, lines |-> lines]
NoLogFile == LogFile(FALSE, <<>>)
LogFiles ==
    {LogFile(TRUE, l) : l \in UNION {[1..n -> LogFileLines] : n \in 0..MaxLog}}
    \cup {NoLogFile}

\* argparse: --tail, --platform, --severity, --errors-only
ViewArguments(op, tail, platform, severity, errors_only) ==
    [op |-> op, tail |-> tail, platform |-> platform, severity |-> severity,
     errors_only |-> errors_only]
NoViewArguments == ViewArguments("none", 0, "all", "all", FALSE)
PlatformChoices == Platforms \cup {"all"}
SeverityChoices == {"info", "warning", "error", "all"}

\* the lines json.loads accepts
Parsed(lines) ==
    LET IsJson(e) == e.json IN SelectSeq(lines, IsJson)

\* the three filters of main, applied in turn
Filtered(es, args) ==
    LET OnPlatform(e) == args.platform # "all" => e.platform = args.platform
        OfSeverity(e) == args.severity # "all" => e.severity = args.severity
        Failed(e)     == args.errors_only => ~e.success
    IN  SelectSeq(SelectSeq(SelectSeq(es, OnPlatform), OfSeverity), Failed)

\* entries[-args.tail:] : a start of -0 is a start of 0, the whole list
LastEntries(es, tail) ==
    IF tail = 0 \/ tail >= Len(es)
    THEN es
    ELSE SubSeq(es, Len(es) - tail + 1, Len(es))

\* main() of tools/audit.py
main ==
    /\ \E tail \in 0..MaxTail, platform \in PlatformChoices,
          severity \in SeverityChoices, errors_only \in BOOLEAN :
        LET args == ViewArguments("main", tail, platform, severity, errors_only)
        IN  /\ view_args' = args
            /\ entries' = IF ~audit_log.exists
                          THEN <<>>
                          ELSE LastEntries(Filtered(Parsed(audit_log.lines), args),
                                           args.tail)
    /\ UNCHANGED audit_log
    /\ UNCHANGED adsVars
    /\ UNCHANGED auditVars
    /\ UNCHANGED configVars
    /\ UNCHANGED errorVars
    /\ UNCHANGED requestVars
    /\ UNCHANGED raceVars

\* ---------------------------------------------------------- format_error
\* RecoveryGuidance (steps left out), and None for "no guidance"
Guidance(summary, retry_after, docs_url) ==
    [found |-> TRUE, summary |-> summary, retry_after |-> retry_after,
     docs_url |-> docs_url]
None == [found |-> FALSE, summary |-> "", retry_after |-> 0, docs_url |-> FALSE]

\* RECOVERY_GUIDES.get(service, {}).get(error_code)
RECOVERY_GUIDES(service, error_code) ==
    CASE service = "apollo" /\ error_code = "401" ->
            Guidance("Apollo API key is invalid or expired", 0, TRUE)
      [] service = "apollo" /\ error_code = "403" ->
            Guidance("Apollo API access denied - check your plan limits", 0, TRUE)
      [] service = "apollo" /\ error_code = "429" ->
            Guidance("Apollo rate limit exceeded", 60, FALSE)
      [] service = "apollo" /\ error_code = "missing_credential" ->
            Guidance("Apollo API key not configured", 0, FALSE)
      [] service = "firecrawl" /\ error_code = "401" ->
            Guidance("Firecrawl API key is invalid", 0, TRUE)
      [] service = "firecrawl" /\ error_code = "402" ->
            Guidance("Firecrawl credits exhausted", 0, TRUE)
      [] service = "firecrawl" /\ error_code = "429" ->
            Guidance("Firecrawl rate limit exceeded", 30, FALSE)
      [] service = "firecrawl" /\ error_code = "missing_credential" ->
            Guidance("Firecrawl API key not configured", 0, FALSE)
      [] service = "clearbit" /\ error_code = "401" ->
            Guidance("Clearbit API key is invalid", 0, FALSE)
      [] service = "clearbit" /\ error_code = "402" ->
            Guidance("Clearbit requires a paid plan", 0, FALSE)
      [] service = "clearbit" /\ error_code = "missing_credential" ->
            Guidance("Clearbit API key not configured", 0, FALSE)
      [] service = "google_ads" /\ error_code = "AUTHENTICATION_ERROR" ->
            Guidance("Google Ads authentication failed", 0, TRUE)
      [] service = "google_ads" /\ error_code = "AUTHORIZATION_ERROR" ->
            Guidance("Not authorized to access this Google Ads account", 0, FALSE)
      [] service = "google_ads" /\ error_code = "QUOTA_ERROR" ->
            Guidance("Google Ads API quota exceeded", 0, TRUE)
      [] service = "google_ads" /\ error_code = "missing_credential" ->
            Guidance("Google Ads credentials not configured", 0, TRUE)
      [] service = "google_ads" /\ error_code = "BUDGET_EXCEEDED" ->
            Guidance("Campaign budget exceeds configured limit", 0, FALSE)
      [] service = "linkedin_ads" /\ error_code = "401" ->
            Guidance("LinkedIn access token is invalid or expired", 0, TRUE)
      [] service = "linkedin_ads" /\ error_code = "403" ->
            Guidance("LinkedIn API access denied", 0, FALSE)
      [] service = "linkedin_ads" /\ error_code = "429" ->
            Guidance("LinkedIn rate limit exceeded", 60, FALSE)
      [] service = "linkedin_ads" /\ error_code = "missing_credential" ->
            Guidance("LinkedIn Ads credentials not configured", 0, FALSE)
      [] service = "linkedin_ads" /\ error_code = "BUDGET_EXCEEDED" ->
            Guidance("Campaign budget exceeds configured limit", 0, FALSE)
      [] service = "proxycurl" /\ error_code = "401" ->
            Guidance("Proxycurl API key is invalid", 0, FALSE)
      [] service = "proxycurl" /\ error_code = "403" ->
            Guidance("Proxycurl credits exhausted", 0, FALSE)
      [] service = "proxycurl" /\ error_code = "missing_credential" ->
            Guidance("Proxycurl API key not configured", 0, FALSE)
      [] OTHER -> None

\* services with guides of their own, and one without
Services == {"apollo", "firecrawl", "clearbit", "google_ads", "linkedin_ads", "proxycurl", "hubspot"}

ErrorCodes ==
    {"400", "401", "402", "403", "404", "429", "500", "999",
     "AUTHENTICATION_ERROR", "AUTHORIZATION_ERROR", "QUOTA_ERROR",
     "BUDGET_EXCEEDED", "RATE_LIMIT", "missing_credential"}

Messages == {"", "Something went wrong"}

_categorize_error(code) ==
    CASE code \in {"401", "AUTHENTICATION_ERROR"} -> "authentication"
      [] code \in {"403", "AUTHORIZATION_ERROR"} -> "authorization"
      [] code \in {"429", "RATE_LIMIT"} -> "rate_limit"
      [] code \in {"400", "VALIDATION_ERROR"} -> "validation"
      [] code \in {"404", "NOT_FOUND"} -> "not_found"
      [] code \in {"402", "QUOTA_ERROR", "QUOTA_EXCEEDED"} -> "quota"
      [] code \in {"BUDGET_EXCEEDED"} -> "budget"
      [] code = "missing_credential" -> "configuration"
      [] OTHER -> "unknown"

_get_generic_guidance(code) ==
    CASE code = "401" -> Guidance("Authentication failed", 0, FALSE)
      [] code = "403" -> Guidance("Access denied", 0, FALSE)
      [] code = "429" -> Guidance("Rate limit exceeded", 60, FALSE)
      [] code = "500" -> Guidance("Server error", 30, FALSE)
      [] OTHER -> None

\* result["recovery"]: summary (and steps), documentation when the guide has
\* a docs_url, retry_after_seconds when it has a retry_after
Recovery(guidance) ==
    [summary |-> guidance.summary,
     keys |-> {"summary", "steps"}
              \cup (IF guidance.docs_url THEN {"documentation"} ELSE {})
              \cup (IF guidance.retry_after # 0 THEN {"retry_after_seconds"}
                    ELSE {}),
     retry_after_seconds |-> guidance.retry_after]
NoRecovery == [summary |-> "", keys |-> {}, retry_after_seconds |-> 0]

ErrorArguments(op, service, error_code, original_message, context) ==
    [op |-> op, service |-> service, error_code |-> error_code,
     original_message |-> original_message, context |-> context]
NoErrorArguments == ErrorArguments("none", "", "", "", FALSE)

FormattedError(keys, service, code, message, category, recovery) ==
    [keys |-> keys, service |-> service, code |-> code, message |-> message,
     category |-> category, recovery |-> recovery]
NoFormattedError == FormattedError({}, "", "", "", "", NoRecovery)

\* format_error(service, error_code, original_message, context); the message
\* is "original_message or guidance.summary if guidance else 'Unknown error'",
\* a conditional expression whose first arm is the whole "or"
format_error(service, error_code, original_message, context) ==
    LET exact == RECOVERY_GUIDES(service, error_code)
        guidance == IF exact = None THEN _get_generic_guidance(error_code)
                    ELSE exact
    IN  FormattedError(
            {"error", "service", "code", "message", "category"}
                \cup (IF guidance.found THEN {"recovery"} ELSE {})
                \cup (IF context THEN {"context"} ELSE {}),
            service, error_code,
            IF guidance.found
            THEN (IF original_message # "" THEN original_message
                  ELSE guidance.summary)
            ELSE "Unknown error",
            _categorize_error(error_code),
            IF guidance.found THEN Recovery(guidance) ELSE NoRecovery)

\* one call of format_error, with or without a context
FormatError ==
    /\ \E service \in Services, error_code \in ErrorCodes,
          original_message \in Messages, context \in BOOLEAN :
        /\ error_args' = ErrorArguments("format_error", service, error_code,
                                        original_message, context)
        /\ error_result' = format_error(service, error_code, original_message,
                                        context)
    /\ UNCHANGED adsVars
    /\ UNCHANGED auditVars
    /\ UNCHANGED configVars
    /\ UNCHANGED viewVars
    /\ UNCHANGED requestVars
    /\ UNCHANGED raceVars

\* ------------------------------------------------- BaseAPIClient._request
MAX_RETRIES == 3

\* what one attempt meets: client.request, raise_for_status and json()
\*   "ok"           a 2xx response with a JSON body
\*   "not_json"     a 2xx response whose body json() rejects
\*   "429"          rate limited, Retry-After absent or an integer
\*   "429_date"     rate limited, Retry-After not an integer (an HTTP date)
\*   "500", "503"   server errors
\*   "400", "404"   other HTTP status errors
\*   "RequestError" the transport failed
AttemptOutcomes ==
    {"ok", "not_json", "429", "429_date", "500", "503", "400", "404",
     "RequestError"}

\* the exception an attempt ends in
Error(outcome) ==
    CASE outcome \in {"429", "500", "503", "400", "404"} ->
            [type |-> "HTTPStatusError", status |-> outcome]
      [] outcome = "RequestError" -> [type |-> "RequestError", status |-> ""]
      [] outcome = "429_date" -> [type |-> "ValueError", status |-> ""]
      [] outcome = "not_json" -> [type |-> "JSONDecodeError", status |-> ""]
      [] OTHER -> [type |-> "none", status |-> ""]
NoError == Error("ok")
RuntimeError == [type |-> "RuntimeError", status |-> ""]

\* variant: every HTTP status error is retried
Retried_EveryStatus(outcome) ==
    outcome \in {"429", "500", "503", "400", "404", "RequestError"}

\* the except clauses that record the error and go on: status 429 (once the
\* Retry-After value is read), status >= 500, httpx.RequestError
Retried(outcome) == outcome \in {"429", "500", "503", "RequestError"}

RequestOutcome(kind, value) == [kind |-> kind, value |-> value]
Running == RequestOutcome("running", NoError)

\* one pass of "for attempt in range(self.MAX_RETRIES)"
BaseAPIClient_request_attempt ==
    /\ request_out = Running
    /\ attempt < MAX_RETRIES
    /\ \E outcome \in AttemptOutcomes :
        /\ responses' = Append(responses, outcome)
        /\ IF outcome = "ok"
           THEN /\ request_out' = RequestOutcome("returned", NoError)
                /\ UNCHANGED <<attempt, last_error>>
           ELSE IF Retried(outcome)
           THEN /\ last_error' = Error(outcome)
                /\ attempt' = attempt + 1
                /\ request_out' = request_out
           ELSE /\ request_out' = RequestOutcome("raised", Error(outcome))
                /\ UNCHANGED <<attempt, last_error>>
    /\ UNCHANGED adsVars
    /\ UNCHANGED auditVars
    /\ UNCHANGED configVars
    /\ UNCHANGED viewVars
    /\ UNCHANGED errorVars
    /\ UNCHANGED raceVars

\* after the loop: "if last_error: raise last_error", else RuntimeError
BaseAPIClient_request_exhausted ==
    /\ request_out = Running
    /\ attempt >= MAX_RETRIES
    /\ request_out' = RequestOutcome("raised",
                                     IF last_error # NoError THEN last_error
                                     ELSE RuntimeError)
    /\ UNCHANGED <<attempt, last_error, responses>>
    /\ UNCHANGED adsVars
    /\ UNCHANGED auditVars
    /\ UNCHANGED configVars
    /\ UNCHANGED viewVars
    /\ UNCHANGED errorVars
    /\ UNCHANGED raceVars

\* ---------------------------------------------------------- specifications
\* no audit viewer under observation
InitViewUnused ==
    /\ audit_log = NoLogFile
    /\ view_args = NoViewArguments
    /\ entries = <<>>

\* no format_error call under observation
InitErrorsUnused ==
    /\ error_args = NoErrorArguments
    /\ error_result = NoFormattedError

\* no request under observation
InitRequestUnused ==
    /\ attempt = 0
    /\ last_error = NoError
    /\ responses = <<>>
    /\ request_out = RequestOutcome("none", NoError)

\* no concurrent callers under observation
InitRaceUnused ==
    /\ callers = [t \in Callers |-> Idle]
    /\ last_write = NoWrite

\* no further tool under observation
InitToolsUnused ==
    /\ InitViewUnused
    /\ InitErrorsUnused
    /\ InitRequestUnused
    /\ InitRaceUnused

\* the default logging configuration of AuditLogger._load_config, and the
\* handler the first instance of the process gives the logger
InitAuditDefaults ==
    /\ enabled = TRUE
    /\ log_api_calls = TRUE
    /\ log_level = "info"
    /\ log_dir = "D1"
    /\ handler = Handler("D1", "info")
    /\ files = [d \in Dirs |-> <<>>]
    /\ log_args = NoArguments
    /\ log_out = "none"

\* no AdsConfig under observation
InitConfigUnused ==
    /\ config_file = MissingFile
    /\ loaded = Unloaded
    /\ answers = NoAnswers

\* one API object, constructed, with a policy and with or without credentials
InitAds ==
    /\ self \in {"GoogleAdsAPI", "LinkedInAdsAPI"}
    /\ config \in Configs
    /\ client \in BOOLEAN
    /\ campaign = NoCampaign
    /\ call = NoCall
    /\ requests = <<>>
    /\ resp = NoResponse
    /\ InitAuditDefaults
    /\ InitConfigUnused
    /\ InitToolsUnused

Next ==
    \/ GoogleAdsAPI_create_campaign
    \/ GoogleAdsAPI_update_campaign_status
    \/ GoogleAdsAPI_update_campaign_budget
    \/ LinkedInAdsAPI_create_campaign
    \/ LinkedInAdsAPI_update_campaign_status
    \/ LinkedInAdsAPI_update_campaign_budget
    \/ LinkedInAdsAPI_create_campaign_group

Spec == InitAds /\ [][Next]_vars

\* no API object under observation
InitAdsUnused ==
    /\ self = "GoogleAdsAPI"
    /\ config = [max_daily_budget |-> 0, max_total_budget |-> 0,
                 force_draft_mode |-> TRUE,
                 require_confirmation |-> TRUE]
    /\ client = FALSE
    /\ campaign = NoCampaign
    /\ call = NoCall
    /\ requests = <<>>
    /\ resp = NoResponse

\* AuditLogger.__init__ of the first instance of the process: audit_trail and
\* log_level of the logging section, and the handler on its own file
InitAudit ==
    /\ enabled \in BOOLEAN
    /\ log_api_calls \in BOOLEAN
    /\ log_level \in LogLevels
    /\ log_dir = "D1"
    /\ handler = Handler(log_dir, log_level)
    /\ files = [d \in Dirs |-> <<>>]
    /\ log_args = NoArguments
    /\ log_out = "none"
    /\ InitAdsUnused
    /\ InitConfigUnused
    /\ InitToolsUnused

\* one AuditLogger and its methods
NextAudit ==
    \/ AuditLogger_log
    \/ AuditLogger_log_campaign_created
    \/ AuditLogger_log_status_change
    \/ AuditLogger_log_budget_change
    \/ AuditLogger_log_budget_limit_exceeded
    \/ AuditLogger_log_confirmation_required
    \/ AuditLogger_log_api_error
    \/ AuditLogger_log_query

SpecAudit == InitAudit /\ [][NextAudit]_vars

\* several AuditLogger instances constructed in one process, the one
\* constructed last being used
NextProcess ==
    \/ AuditLogger_init
    \/ AuditLogger_log_defaults

SpecProcess == InitAudit /\ [][NextProcess]_vars

\* an AdsConfig constructed over a configuration file, and its accessors
InitConfig ==
    /\ self \in {"GoogleAdsAPI", "LinkedInAdsAPI"}
    /\ config_file \in ConfigFiles(self)
    /\ loaded = Unloaded
    /\ answers = NoAnswers
    /\ config = [max_daily_budget |-> 0, max_total_budget |-> 0,
                 force_draft_mode |-> TRUE,
                 require_confirmation |-> TRUE]
    /\ client = FALSE
    /\ campaign = NoCampaign
    /\ call = NoCall
    /\ requests = <<>>
    /\ resp = NoResponse
    /\ InitAuditDefaults
    /\ InitToolsUnused

NextConfig ==
    \/ AdsConfig_init
    \/ AdsConfig_get_max_daily_budget
    \/ AdsConfig_get_max_cpc_bid
    \/ AdsConfig_force_draft_mode
    \/ AdsConfig_require_confirmation

SpecConfig == InitConfig /\ [][NextConfig]_vars

\* the audit viewer run over a log file earlier runs of the tools left
InitView ==
    /\ audit_log \in LogFiles
    /\ view_args = NoViewArguments
    /\ entries = <<>>
    /\ InitAdsUnused
    /\ InitAuditDefaults
    /\ InitConfigUnused
    /\ InitErrorsUnused
    /\ InitRequestUnused
    /\ InitRaceUnused

NextView == main

SpecView == InitView /\ [][NextView]_vars

\* format_error called with any service, code and message
InitErrors ==
    /\ InitErrorsUnused
    /\ InitAdsUnused
    /\ InitAuditDefaults
    /\ InitConfigUnused
    /\ InitViewUnused
    /\ InitRequestUnused
    /\ InitRaceUnused

NextErrors == FormatError

SpecErrors == InitErrors /\ [][NextErrors]_vars

\* one _request call, entered: last_error = None, the loop about to start
InitRequest ==
    /\ attempt = 0
    /\ last_error = NoError
    /\ responses = <<>>
    /\ request_out = Running
    /\ InitAdsUnused
    /\ InitAuditDefaults
    /\ InitConfigUnused
    /\ InitViewUnused
    /\ InitErrorsUnused
    /\ InitRaceUnused

NextRequest ==
    \/ BaseAPIClient_request_attempt
    \/ BaseAPIClient_request_exhausted

\* the call runs on without outside help: every attempt ends (the client has
\* a timeout) and every sleep is finite
SpecRequest == InitRequest /\ [][NextRequest]_vars /\ WF_vars(NextRequest)

\* a LinkedIn campaign with some daily budget on the platform, an access
\* token, a policy, and the callers about to call
InitRace ==
    /\ self = "LinkedInAdsAPI"
    /\ config \in Configs
    /\ config.max_total_budget = 0
    /\ client = TRUE
    /\ \E daily \in Budgets : campaign = Campaign("DRAFT", daily)
    /\ call = NoCall
    /\ requests = <<>>
    /\ resp = NoResponse
    /\ InitRaceUnused
    /\ InitAuditDefaults
    /\ InitConfigUnused
    /\ InitViewUnused
    /\ InitErrorsUnused
    /\ InitRequestUnused

NextRace ==
    \/ Concurrent_update_campaign_budget
    \/ Concurrent_get_campaign
    \/ Concurrent_patch

SpecRace == InitRace /\ [][NextRace]_vars

\* ================================================================= claims
\* vocabulary of the claims
NonSpendingStatus == IF self = "GoogleAdsAPI" THEN "PAUSED" ELSE "DRAFT"
SpendEnablingStatus == IF self = "GoogleAdsAPI" THEN "ENABLED" ELSE "ACTIVE"
HasCap == config.max_daily_budget > 0
OverCap == HasCap /\ call.budget > config.max_daily_budget
Sent(kind) == \E i \in DOMAIN requests : requests[i].kind = kind
AllAnswered == \A i \in DOMAIN requests : requests[i].outcome = "ok"
ReadCurrent == call.current # NoBudget
MentionsMaximum ==
    /\ resp.error = "exceeds_maximum"
    /\ "max_budget" \in resp.keys
    /\ resp.max_budget = config.max_daily_budget
GoogleWithoutClient == self = "GoogleAdsAPI" /\ ~client

\* C1: every create_campaign call sends the platform's non-spending status
\* (PAUSED on Google Ads, DRAFT on LinkedIn Ads) and reports that status in
\* its success response, whatever the arguments, the confirm flag and
\* force_draft_mode.
C1_CreateNeverSpendEnabled ==
    call.op = "create" =>
        /\ \A i \in DOMAIN requests :
              requests[i].kind = "create_campaign" =>
                  requests[i].status = NonSpendingStatus
        /\ resp.kind = "success" => resp.status = NonSpendingStatus
        /\ resp.kind = "success" => campaign.status = NonSpendingStatus

C1_Witness ==
    /\ call.op = "create" /\ ~config.force_draft_mode
    /\ call.budget > 0 /\ call.confirm
    /\ resp.kind = "success" /\ Sent("create_campaign")

\* C2 as stated: every create_campaign call with a budget above a positive
\* max_daily_budget returns an error that mentions the maximum and sends
\* nothing to the platform, whatever the confirm flag.
C2_Original ==
    (call.op = "create" /\ OverCap) =>
        /\ resp.kind = "error" /\ MentionsMaximum
        /\ requests = <<>>

\* C2 amended: such a call returns an error and sends nothing to the
\* platform; the error mentions the maximum, except on Google Ads without an
\* initialized client, where it is the missing-credentials error.
C2_OverCapCreateBlocked ==
    (call.op = "create" /\ OverCap) =>
        /\ resp.kind = "error" /\ "error" \in resp.keys
        /\ requests = <<>>
        /\ IF GoogleWithoutClient
           THEN resp.error = "missing_credential"
           ELSE MentionsMaximum

C2_Witness ==
    /\ call.op = "create" /\ OverCap /\ call.confirm
    /\ resp.kind = "error" /\ MentionsMaximum /\ requests = <<>>

\* C3 as stated: an update_campaign_budget call with a new budget above a
\* positive max_daily_budget is blocked before any request is sent to the
\* platform, the read of the campaign's current state included.
C3_Original ==
    (call.op = "update_budget" /\ OverCap) => requests = <<>>

\* C3 amended: such a call never sends a budget write; the only request it
\* may send is the read of the campaign's current state, which comes before
\* the cap check, and once that read has succeeded the call returns the
\* budget-limit error.
C3_OverCapUpdateNeverWrites ==
    (call.op = "update_budget" /\ OverCap) =>
        /\ ~Sent("update_budget")
        /\ \A i \in DOMAIN requests : requests[i].kind = "read"
        /\ Len(requests) <= 1
        /\ resp.kind # "success"
        /\ (requests # <<>> /\ AllAnswered) => (resp.kind = "error" /\ MentionsMaximum)

C3_Witness ==
    /\ call.op = "update_budget" /\ OverCap /\ call.confirm
    /\ Len(requests) = 1 /\ requests[1].kind = "read" /\ AllAnswered
    /\ resp.kind = "error" /\ MentionsMaximum

\* C4 as stated: with require_confirmation set, a create_campaign call with
\* a positive budget within the cap returns requires_confirmation (with
\* message and details) and sends nothing when confirm is false; with confirm
\* true it dispatches the create and, when the platform accepts it, returns
\* success with the non-spending status and the requested budget.
C4_Original ==
    (/\ call.op = "create" /\ call.budget > 0 /\ ~OverCap
     /\ config.require_confirmation) =>
        IF ~call.confirm
        THEN /\ resp.kind = "requires_confirmation"
             /\ {"requires_confirmation", "message", "details"} \subseteq resp.keys
             /\ requests = <<>>
        ELSE /\ Sent("create_campaign")
             /\ AllAnswered =>
                   /\ resp.kind = "success"
                   /\ resp.status = NonSpendingStatus
                   /\ resp.budget = call.budget

\* C4 amended: the same, for an API object that has its credentials (Google
\* Ads client initialized, LinkedIn access token set).  Without them nothing
\* is sent and Google Ads returns the missing-credentials error for either
\* value of confirm, while LinkedIn Ads still asks for confirmation when
\* confirm is false and returns the missing-token error when it is true.
C4_PerCall ==
    (/\ call.op = "create" /\ call.budget > 0 /\ ~OverCap
     /\ config.require_confirmation) =>
        IF client
        THEN IF ~call.confirm
             THEN /\ resp.kind = "requires_confirmation"
                  /\ {"requires_confirmation", "message", "details"} \subseteq resp.keys
                  /\ resp.budget = call.budget /\ resp.status = NonSpendingStatus
                  /\ requests = <<>>
             ELSE /\ requests # <<>>
                  /\ \/ Sent("create_campaign")
                     \/ \E i \in DOMAIN requests : requests[i].outcome # "ok"
                  /\ AllAnswered =>
                        /\ Sent("create_campaign")
                        /\ resp.kind = "success"
                        /\ resp.status = NonSpendingStatus
                        /\ resp.budget = call.budget
        ELSE /\ requests = <<>>
             /\ IF self = "GoogleAdsAPI"
                THEN resp.kind = "error" /\ resp.error = "missing_credential"
                ELSE IF ~call.confirm
                THEN resp.kind = "requires_confirmation"
                ELSE resp.kind = "error" /\ resp.error = "no_access_token"

\* the confirmed call that repeats the intent of an unconfirmed one
C4_Repeat ==
    (/\ call.op = "create" /\ resp.kind = "requires_confirmation"
     /\ call'.op = "create" /\ call'.budget = call.budget /\ call'.confirm
     /\ client) =>
        /\ requests' # <<>>
        /\ (\A i \in DOMAIN requests' : requests'[i].outcome = "ok") =>
              /\ resp'.kind = "success"
              /\ resp'.status = NonSpendingStatus
              /\ resp'.budget = call.budget

C4_ConfirmThenCreate == [](C4_PerCall) /\ [][C4_Repeat]_vars

C4_Witness ==
    /\ call.op = "create" /\ call.budget > 0 /\ ~OverCap /\ HasCap
    /\ config.require_confirmation /\ call.confirm
    /\ Sent("create_campaign") /\ AllAnswered
    /\ resp.kind = "success" /\ resp.budget = call.budget

\* spelling of the status argument, in upper case
RequestedStatus == Upper(call.status)

\* C5 as stated: an update_campaign_status call to the spend-enabling status
\* (ENABLED on Google Ads, ACTIVE on LinkedIn Ads, any letter case) with
\* require_confirmation set and confirm false returns requires_confirmation
\* and sends no status change; a status change to that status is sent only
\* when confirm is true or require_confirmation is false.
C5_Original ==
    (call.op = "update_status" /\ RequestedStatus = SpendEnablingStatus) =>
        /\ (config.require_confirmation /\ ~call.confirm) =>
              (resp.kind = "requires_confirmation" /\ ~Sent("update_status"))
        /\ Sent("update_status") => (call.confirm \/ ~config.require_confirmation)

\* C5 amended: the same, except that Google Ads without an initialized
\* client returns the missing-credentials error instead of
\* requires_confirmation (and sends nothing either).
C5_EnableNeedsConfirmation ==
    (call.op = "update_status" /\ RequestedStatus = SpendEnablingStatus) =>
        /\ (config.require_confirmation /\ ~call.confirm) =>
              /\ ~Sent("update_status") /\ requests = <<>>
              /\ IF GoogleWithoutClient
                 THEN resp.kind = "error" /\ resp.error = "missing_credential"
                 ELSE /\ resp.kind = "requires_confirmation"
                      /\ "requires_confirmation" \in resp.keys
        /\ Sent("update_status") => (call.confirm \/ ~config.require_confirmation)

C5_Witness ==
    /\ call.op = "update_status" /\ RequestedStatus = SpendEnablingStatus
    /\ call.status # RequestedStatus
    /\ config.require_confirmation /\ ~call.confirm
    /\ resp.kind = "requires_confirmation" /\ requests = <<>>

\* C6 as stated: an update_campaign_budget call whose new daily budget is
\* above the current one read from the platform, with require_confirmation
\* set and confirm false, returns requires_confirmation and sends no budget
\* write.
C6_Original ==
    (/\ call.op = "update_budget" /\ ReadCurrent /\ call.budget > call.current
     /\ config.require_confirmation /\ ~call.confirm) =>
        /\ resp.kind = "requires_confirmation"
        /\ ~Sent("update_budget")

\* C6 amended: such a call never sends a budget write; it returns
\* requires_confirmation when the new budget is within the cap (or no cap is
\* set), and the budget-limit error when it is above a positive cap.
C6_IncreaseNeedsConfirmation ==
    (/\ call.op = "update_budget" /\ ReadCurrent /\ call.budget > call.current
     /\ config.require_confirmation /\ ~call.confirm) =>
        /\ ~Sent("update_budget")
        /\ IF OverCap
           THEN resp.kind = "error" /\ MentionsMaximum
           ELSE /\ resp.kind = "requires_confirmation"
                /\ "requires_confirmation" \in resp.keys
                /\ resp.budget = call.budget

C6_Witness ==
    /\ call.op = "update_budget" /\ ReadCurrent /\ call.budget > call.current
    /\ HasCap /\ ~OverCap
    /\ config.require_confirmation /\ ~call.confirm
    /\ resp.kind = "requires_confirmation" /\ ~Sent("update_budget")

\* C7: an update_campaign_budget call that lowers or keeps the budget (new
\* budget <= current) and an update_campaign_status call to a status other
\* than the spend-enabling one never return requires_confirmation, whatever
\* confirm and require_confirmation are.
C7_NoConfirmationForSafeChanges ==
    /\ (call.op = "update_budget" /\ ReadCurrent /\ call.budget <= call.current) =>
          (resp.kind # "requires_confirmation" /\ "requires_confirmation" \notin resp.keys)
    /\ (call.op = "update_status" /\ RequestedStatus # SpendEnablingStatus) =>
          (resp.kind # "requires_confirmation" /\ "requires_confirmation" \notin resp.keys)

C7_Witness ==
    /\ call.op = "update_budget" /\ ReadCurrent
    /\ call.budget # NoBudget /\ call.budget < call.current
    /\ config.require_confirmation /\ ~call.confirm
    /\ Sent("update_budget") /\ resp.kind = "success"

\* C8: on both platforms an update_campaign_budget call that passes the
\* guardrails (within the cap, and new budget <= current or confirm true)
\* sends the budget write and returns success when the platform accepts it.
C8_PassedUpdateExecutes ==
    (/\ call.op = "update_budget" /\ ReadCurrent /\ ~OverCap
     /\ (call.budget <= call.current \/ call.confirm)) =>
        /\ Sent("update_budget")
        /\ AllAnswered => resp.kind = "success"

\* C9: every mutating call leaves an audit event for its outcome: a blocked
\* call a budget_limit_exceeded event with success false, a call that needs
\* confirmation a confirmation_required event with success false, and a
\* dispatched mutation an event whose success is the platform's outcome.
Dispatched == \E i \in DOMAIN requests : requests[i].kind # "read"
C9_EveryOutcomeAudited ==
    (call.op # "none" /\ (MentionsMaximum \/ resp.kind = "requires_confirmation" \/ Dispatched)) =>
        /\ logFile # <<>>
        /\ LET e == logFile[Len(logFile)]
           IN  IF MentionsMaximum
               THEN e.event_type = "budget_limit_exceeded" /\ ~e.success
               ELSE IF resp.kind = "requires_confirmation"
               THEN e.event_type = "confirmation_required" /\ ~e.success
               ELSE e.success = AllAnswered

\* no raw value under a denylisted key, at any depth of dicts and lists
RECURSIVE NoRawSecret(_)
NoRawSecret(obj) ==
    IF obj.t = "map"
    THEN \A k \in DOMAIN obj.v :
            IF Lower(k) \in sensitive_fields
            THEN obj.v[k] = REDACTED
            ELSE NoRawSecret(obj.v[k])
    ELSE IF obj.t = "list"
    THEN \A i \in DOMAIN obj.v : NoRawSecret(obj.v[i])
    ELSE TRUE

\* C10: in every event written by AuditLogger.log, the details hold no raw
\* value under a key that matches the denylist case-insensitively, at any
\* nesting depth; each such value is the marker [REDACTED].
C10_DetailsRedacted ==
    \A i \in DOMAIN logFile : NoRawSecret(logFile[i].details)

\* the last call wrote its event as the last line of the handler's file
Wrote ==
    /\ log_args.op # "none"
    /\ log_out = "returned"
    /\ Reaches(log_args)
    /\ log_args.sink = "ok"
LastLine == files[handler.file][Len(files[handler.file])]

\* y has the shape of x (every key, every list position) and every value of x
\* that is not located under a denylisted key
RECURSIVE SameOutside(_, _)
SameOutside(x, y) ==
    IF x.t = "map"
    THEN /\ y.t = "map"
         /\ DOMAIN y.v = DOMAIN x.v
         /\ \A k \in DOMAIN x.v :
               Lower(k) \in sensitive_fields \/ SameOutside(x.v[k], y.v[k])
    ELSE IF x.t = "list"
    THEN /\ y.t = "list"
         /\ DOMAIN y.v = DOMAIN x.v
         /\ \A i \in DOMAIN x.v : SameOutside(x.v[i], y.v[i])
    ELSE y = x

\* C11: redaction is idempotent and leaves non-sensitive content untouched:
\* for the request_data x of every log() call, redacting the redacted value
\* changes nothing, the redacted value keeps every key of x and every value
\* of x that is not located under a denylisted key, and it is the value the
\* written line carries.
C11_RedactionIdempotent ==
    log_args.op = "log" =>
        LET x == log_args.request_data
            y == _sanitize_request(x)
        IN  /\ _sanitize_request(y) = y
            /\ SameOutside(x, y)
            /\ Wrote => LastLine.request_data = y

C11_Witness ==
    /\ log_args.op = "log" /\ Wrote
    /\ log_args.request_data \in Siblings
    /\ log_args.request_data.v["name"].t = "map"
    /\ LastLine.request_data # log_args.request_data
    /\ LastLine.request_data.v["name"] = log_args.request_data.v["name"]
    /\ LastLine.request_data.v["Token"] = REDACTED

\* the safe default of each policy field
SafeDefault(field) ==
    CASE field = "max_daily_budget" -> Num(0)
      [] field = "max_cpc_bid" -> Num(DefaultMaxCpcBid(self))
      [] OTHER -> Bool(TRUE)

\* C12: loading the policy from a missing, empty or unparsable configuration
\* file never raises, and afterwards max_daily_budget() = 0,
\* force_draft_mode() = true and require_confirmation() = true.
C12_DefaultsWithoutConfig ==
    config_file \in {MissingFile, EmptyFile, UnparsableFile} =>
        /\ loaded # Raise
        /\ \A f \in {"max_daily_budget", "force_draft_mode", "require_confirmation"} :
              answers[f] \in {Uncalled, SafeDefault(f)}

\* a section or platform entry of a mapping, empty when absent or null
Section(cfg, name) ==
    IF name \in DOMAIN cfg.v /\ cfg.v[name].t = "map" THEN cfg.v[name] ELSE EmptyMap

\* the value the configuration file gives a policy field, its safe default
\* when the file does not give the field
Configured(field) ==
    LET home == IF field \in {"max_daily_budget", "max_cpc_bid"}
                THEN Section(Section(loaded, "budgets"), PlatformKey(self))
                ELSE Section(loaded, "safety")
    IN  IF field \in DOMAIN home.v THEN home.v[field] ELSE SafeDefault(field)

\* C13: a partial configuration is merged field by field over the safe
\* defaults: every accessor returns the configured value when the file gives
\* the field and the safe default otherwise, also when a whole section or
\* its platform entry is absent or null, whatever the other fields are.
C13_PerFieldMerge ==
    loaded.t = "map" =>
        \A f \in PolicyFields : answers[f] \in {Uncalled, Configured(f)}

C15_ZeroBudgetPreventsSpend ==
    (/\ config.max_daily_budget = 0
     /\ config.force_draft_mode /\ config.require_confirmation) =>
        \A i \in DOMAIN requests :
            requests[i].kind \in {"create_budget", "create_campaign", "update_budget"}
                => requests[i].daily <= 0

\* the keys callers branch on
OutcomeKeys == {"success", "error", "requires_confirmation"}

\* C16: every mutating call returns a response holding exactly one of the
\* keys success, error and requires_confirmation, for every combination of
\* policy, arguments, credential state and gateway outcome.
C16_ResponseShape ==
    call.op \in {"create", "update_status", "update_budget"} =>
        /\ resp.kind \in OutcomeKeys
        /\ resp.keys \cap OutcomeKeys = {resp.kind}

\* a call that can start or raise spend: a create with a budget, a status
\* change to the spend-enabling status, a budget above the current one
Risky ==
    \/ call.op = "create" /\ call.budget > 0
    \/ call.op = "update_status" /\ RequestedStatus = SpendEnablingStatus
    \/ call.op = "update_budget" /\ ReadCurrent /\ call.budget > call.current

Unconfirmed == Risky /\ config.require_confirmation /\ ~call.confirm

\* C17 as stated: confirmation is never persisted: after any sequence of
\* earlier calls, confirmed ones with the identical intent included, an
\* unconfirmed risky call with require_confirmation set returns
\* requires_confirmation and performs no mutation.
C17_Original ==
    Unconfirmed => resp.kind = "requires_confirmation" /\ ~Dispatched

\* C17 amended: after any sequence of earlier calls, an unconfirmed risky
\* call with require_confirmation set sends no write and leaves the campaign
\* as it was; it returns requires_confirmation, unless an earlier check of
\* the handler rejects it: the missing-credentials error on Google Ads
\* without a client, the budget-limit error for a budget above a positive cap.
C17_PerCall ==
    Unconfirmed =>
        /\ ~Dispatched
        /\ IF GoogleWithoutClient THEN resp.error = "missing_credential"
           ELSE IF OverCap THEN MentionsMaximum
           ELSE resp.kind = "requires_confirmation"

C17_Step == Unconfirmed' => campaign' = campaign

C17_ConfirmationNotPersisted == [](C17_PerCall) /\ [][C17_Step]_vars

\* a campaign was created (with confirmation) and the create is called again
\* with the same budget, unconfirmed; or its activation is asked for
C17_Witness ==
    /\ campaign.exists /\ config.require_confirmation /\ ~call.confirm
    /\ \/ call.op = "create" /\ call.budget = campaign.daily /\ call.budget > 0
       \/ call.op = "update_status" /\ call.id = "created"
          /\ RequestedStatus = SpendEnablingStatus
    /\ resp.kind = "requires_confirmation"
    /\ requests = <<>>

\* C18: AuditLogger.log and its convenience methods never throw to the
\* caller, for any event contents and any state of the log sink.  (Stated
\* for log() itself.)
C18_LogNeverThrows == log_args.op = "log" => log_out # "raised"

\* C19: for an enabled AuditLogger constructed with log directory D, each
\* call of log() appends exactly one line for that event to D/ads_audit.log,
\* at every severity and whatever other instances the process constructed
\* before; the lines already there stay as they are.  (Stated for calls
\* that find the sink available.)
C19_Step ==
    (log_args'.op = "log" /\ enabled /\ log_args'.sink = "ok") =>
        /\ Len(files'[log_dir]) = Len(files[log_dir]) + 1
        /\ SubSeq(files'[log_dir], 1, Len(files[log_dir])) = files[log_dir]
        /\ files'[log_dir][Len(files'[log_dir])].severity = log_args'.severity
        /\ \A d \in Dirs \ {log_dir} : files'[d] = files[d]

C19_AppendsOneLine == [][C19_Step]_vars

\* C20: with the enabled flag false, log() and every convenience method are
\* no-ops on the audit log: the files are the same after the call.
C20_Step == (~enabled /\ log_args'.op # "none") => files' = files

C20_DisabledNoOp == [][C20_Step]_vars

C20_Witness ==
    /\ ~enabled
    /\ log_args.op = "log_campaign_created"
    /\ log_out = "returned"
    /\ \A d \in Dirs : files[d] = <<>>

\* C21: the canonical audit constructors fix a consistent event type,
\* severity and success: a status change is update_status, WARNING exactly
\* when the new status is ENABLED or ACTIVE (as spelled) and INFO otherwise;
\* a budget change is update_budget with change_type increase and WARNING
\* when new > old, and decrease with INFO otherwise; limit-exceeded is
\* WARNING with success false; confirmation-required has success false; an
\* API error is ERROR with success false; campaign-created is INFO with
\* success true.  The written line carries the same three fields.
C21_CanonicalEvents ==
    (log_out = "returned" /\ log_args.details # NoneValue) =>
        LET a == log_args
            d == a.details.v
        IN  /\ a.op = "log_status_change" =>
                  /\ a.event_type = "update_status" /\ a.success
                  /\ a.severity = IF d.new_status.v \in {"ENABLED", "ACTIVE"}
                                  THEN "warning" ELSE "info"
            /\ a.op = "log_budget_change" =>
                  /\ a.event_type = "update_budget" /\ a.success
                  /\ IF d.new_budget.v > d.old_budget.v
                     THEN d.change_type.v = "increase" /\ a.severity = "warning"
                     ELSE d.change_type.v = "decrease" /\ a.severity = "info"
            /\ a.op = "log_budget_limit_exceeded" =>
                  /\ a.event_type = "budget_limit_exceeded"
                  /\ a.severity = "warning" /\ ~a.success
            /\ a.op = "log_confirmation_required" =>
                  a.event_type = "confirmation_required" /\ ~a.success
            /\ a.op = "log_api_error" =>
                  a.event_type = "api_error" /\ a.severity = "error" /\ ~a.success
            /\ a.op = "log_campaign_created" =>
                  a.event_type = "create_campaign" /\ a.severity = "info" /\ a.success
            /\ (a.op # "log" /\ Wrote) =>
                  /\ LastLine.event_type = a.event_type
                  /\ LastLine.severity = a.severity
                  /\ LastLine.success = a.success
                  /\ LastLine.details = a.details

C21_Witness ==
    /\ log_args.op = "log_budget_change" /\ Wrote
    /\ LastLine.details.v.change_type.v = "increase"
    /\ LastLine.severity = "warning"


\* the entries of the file that pass every filter of the command line
Matching == Filtered(Parsed(audit_log.lines), view_args)

Min(a, b) == IF a <= b THEN a ELSE b

\* the last n elements of a sequence, in their order
Last(es, n) == SubSeq(es, Len(es) - n + 1, Len(es))

\* C22: for every N >= 0 and every combination of filters the audit view
\* shows exactly the last min(N, m) of the m entries that pass the filters,
\* in their log order.
C22_ViewShowsLastN ==
    (view_args.op = "main" /\ audit_log.exists)
        => entries = Last(Matching, Min(view_args.tail, Len(Matching)))

\* the codes the generic guides cover
GenericCodes == {"401", "403", "429", "500"}

\* C23: format_error uses the guide registered for the exact (service,
\* code); otherwise the generic guide of the code (401, 403, 429, 500);
\* otherwise the result has no recovery block, category unknown, and the
\* caller's original message as its message.
C23_GuidancePrecedence ==
    error_args.op = "format_error" =>
        LET exact == RECOVERY_GUIDES(error_args.service, error_args.error_code)
        IN  IF exact.found
            THEN /\ "recovery" \in error_result.keys
                 /\ error_result.recovery = Recovery(exact)
            ELSE IF error_args.error_code \in GenericCodes
            THEN /\ "recovery" \in error_result.keys
                 /\ error_result.recovery =
                        Recovery(_get_generic_guidance(error_args.error_code))
            ELSE /\ "recovery" \notin error_result.keys
                 /\ error_result.category = "unknown"
                 /\ error_result.message = error_args.original_message

\* the call got as far as its safety checks: create_campaign does unless it
\* is Google's without a client, update_campaign_budget does once its read
\* of the campaign has succeeded
ReachedChecks ==
    IF call.op = "create" THEN ~GoogleWithoutClient
    ELSE requests # <<>> /\ AllAnswered

\* C24 as stated: for create_campaign and update_campaign_budget, a budget
\* above the cap (max > 0) always ends in the budget error, for confirm true
\* and for confirm false, and never in requires_confirmation.
C24_Original ==
    (call.op \in {"create", "update_budget"} /\ OverCap) =>
        /\ resp.kind = "error" /\ MentionsMaximum
        /\ resp.kind # "requires_confirmation"

\* C24 amended: such a call never returns requires_confirmation and never
\* succeeds, whatever the confirm flag; once it has reached its safety
\* checks its outcome is the budget error, for confirm true and false alike.
C24_CapBeforeConfirmation ==
    (call.op \in {"create", "update_budget"} /\ OverCap) =>
        /\ resp.kind \notin {"requires_confirmation", "success"}
        /\ ReachedChecks => (resp.kind = "error" /\ MentionsMaximum)

C24_Witness ==
    /\ call.op \in {"create", "update_budget"} /\ OverCap
    /\ config.require_confirmation /\ ~call.confirm
    /\ ReachedChecks
    /\ resp.kind = "error" /\ MentionsMaximum

\* C25: an update_campaign_budget call whose read of the campaign's current
\* state fails (API error, campaign absent, missing credentials) never
\* raises: it returns a structured error response and sends no budget write.
C25_FailedReadReturnsError ==
    (call.op = "update_budget" /\ ~ReadCurrent) =>
        /\ resp.kind = "error" /\ "error" \in resp.keys
        /\ ~Sent("update_budget")

\* the attempt made last, and the attempts before it
LastResponse == responses[Len(responses)]
Earlier == 1..(Len(responses) - 1)
Ended == request_out.kind \in {"returned", "raised"}

RetryRule ==
    /\ Len(responses) <= MAX_RETRIES
    /\ \A i \in Earlier : responses[i] \in {"429", "500", "503", "RequestError"}
    /\ request_out.kind = "returned" <=> (responses # <<>> /\ LastResponse = "ok")
    /\ (responses # <<>> /\ LastResponse \in {"400", "404"}) =>
            request_out = RequestOutcome("raised", Error(LastResponse))
    /\ (Ended /\ Len(responses) = MAX_RETRIES /\ LastResponse # "ok") =>
            request_out = RequestOutcome("raised", Error(LastResponse))

\* C26: _request always ends, after at most MAX_RETRIES attempts; an attempt
\* that succeeds returns its JSON at once; an attempt is followed by another
\* only after a 429, a 5xx or a transport RequestError; any other HTTP status
\* error is raised the first time it occurs; when all MAX_RETRIES attempts
\* fail the error of the last attempt is raised.
C26_RequestTerminates == []RetryRule /\ <>Ended

C26_Witness ==
    /\ Len(responses) = MAX_RETRIES
    /\ responses[1] = "429" /\ responses[2] = "RequestError"
    /\ LastResponse = "503"
    /\ request_out = RequestOutcome("raised", Error("503"))

\* C27: for every successful update_campaign_status call, whatever status
\* string the caller passes, the new_status of the response is the status
\* that was sent to the platform.
C27_ReportedStatusIsSent ==
    (call.op = "update_status" /\ resp.kind = "success") =>
        /\ Sent("update_status")
        /\ \A i \in DOMAIN requests :
              requests[i].kind = "update_status" =>
                  requests[i].status = resp.status

\* the platform carried out a request of this kind: a resource was created
Created(kind) ==
    \E i \in DOMAIN requests :
        requests[i].kind = kind /\ requests[i].outcome = "ok"

\* C28: a create_campaign call that returns an error has created nothing on
\* the platform, neither a budget resource nor a campaign resource.
C28_FailedCreateLeavesNothing ==
    (call.op = "create" /\ resp.kind = "error") =>
        /\ ~Created("create_budget")
        /\ ~Created("create_campaign")

\* a total budget above a positive max_total_budget went to the platform
TotalOverCeilingSent ==
    \E i \in DOMAIN requests :
        /\ requests[i].total # NoBudget
        /\ config.max_total_budget > 0
        /\ requests[i].total > config.max_total_budget

\* C30: no create_campaign or update_campaign_budget call sends a total
\* budget above a positive max_total_budget to the platform; such a call is
\* rejected with an error.
C30_TotalCeilingEnforced ==
    call.op \in {"create", "update_budget"} => ~TotalOverCeilingSent

\* the last budget write came from a call without confirm, under a policy
\* that requires confirmation
UnconfirmedWrite ==
    /\ last_write # NoWrite
    /\ config.require_confirmation
    /\ ~last_write.confirm

\* C29 as stated: under any interleaving of concurrent update_campaign_budget
\* calls on one campaign, with require_confirmation set, a call with confirm
\* false never writes a budget above the budget the campaign has on the
\* platform at the moment of the write.
C29_Original ==
    UnconfirmedWrite => last_write.budget <= last_write.before

\* C29 amended: such a call never writes a budget above the budget it read
\* for the campaign; the budget at the moment of the write may be lower,
\* when another call wrote between the read and the write.
C29_NoIncreaseOverRead ==
    UnconfirmedWrite => last_write.budget <= last_write.read

C29_Witness ==
    /\ UnconfirmedWrite
    /\ last_write.before < last_write.read
    /\ last_write.budget > last_write.before
    /\ last_write.budget <= last_write.read
====
